---- MODULE Spec2Model ----
(***************************************************************************)
(* The OpenGradient action provider of coinbase_agentkit                   *)
(* (action_providers/opengradient/opengradient_action_provider.py).        *)
(*                                                                         *)
(* Python values are modelled as follows.                                  *)
(*   str            a TLA+ string                                          *)
(*   str | None     a sequence of length <= 1: <<>> is None, <<s>> is s    *)
(*   dict           a function whose DOMAIN is the set of keys             *)
(*   float          a decimal record [neg, ip, fd]: sign, integer part and *)
(*                  the sequence of digits after the decimal point         *)
(*   an exception   a record [type, str]: its class and str(e)             *)
(*   a call's end   a record [kind, value, exc]: kind "return" carries the *)
(*                  returned string, kind "raise" the exception            *)
(* Three specifications share the variables: CtorSpec constructs a         *)
(* provider from every combination of parameters and environment, Spec     *)
(* starts from the provider the factory returns and invokes its actions,   *)
(* SchemaSpec builds instances of the input schemas.                       *)
(***************************************************************************)
EXTENDS Integers, Sequences, FiniteSets, TLC

VARIABLES
    env,          \* os.environ restricted to the three OPENGRADIENT_* names
    phase,        \* "new", "constructed" (an instance was returned), "raised"
    ctorArgs,     \* the parameters of the last __init__ call
    name,         \* ActionProvider.name, set by super().__init__
    client,       \* self.client, None until og.init has returned
    initCalls,    \* every call of og.init: its keyword arguments and its end
    ctorError,    \* the exception __init__ raised, None if none
    lastCall,     \* the last invocation: action, args and the SDK's scripted end
    readCalls,    \* og.read_workflow_result calls made by the last invocation
    chatCalls,    \* og.llm_chat calls made by the last invocation
    result,       \* how the last invocation ended
    netResult,    \* what the last supports_network query returned, else None
    instance      \* the fields of the last schema instance built, else None

ctorVars == <<env, phase, ctorArgs, name, client, initCalls, ctorError>>
callVars == <<lastCall, readCalls, chatCalls, result, netResult, instance>>
vars == <<env, phase, ctorArgs, name, client, initCalls, ctorError,
          lastCall, readCalls, chatCalls, result, netResult, instance>>

----------------------------------------------------------------------------
(* Python helpers *)

None == <<>>

Some(s) == <<s>>

\* as Truthy, but testing `is not None` only
Truthy_IsNotNone(o) == o # None

\* bool(x) of a str | None: None and "" are falsy
Truthy(o) == o # None /\ o[1] # ""

\* a or b
PyOr(a, b) == IF Truthy(a) THEN a ELSE b

\* s contains sub as a substring
Contains(s, sub) ==
    \E i \in 1..(Len(s) - Len(sub) + 1) : SubSeq(s, i, i + Len(sub) - 1) = sub

\* s.startswith(pre)
StartsWith(s, pre) == Len(s) >= Len(pre) /\ SubSeq(s, 1, Len(pre)) = pre

Exc(type, str) == [type |-> type, str |-> str]

NoExc == Exc("", "")

Return(s) == [kind |-> "return", value |-> s, exc |-> NoExc]

Raise(e) == [kind |-> "raise", value |-> "", exc |-> e]

\* The classes `except Exception` catches, among those that occur here.
ExceptionSubclasses ==
    {"Exception", "ValueError", "KeyError", "NameError", "AttributeError",
     "RuntimeError"}

IsException(e) == e.type \in ExceptionSubclasses

----------------------------------------------------------------------------
(* Construction *)

EnvNames == {"OPENGRADIENT_PRIVATE_KEY", "OPENGRADIENT_EMAIL", "OPENGRADIENT_PASSWORD"}

\* os.getenv(n): the value, or None when the variable is unset
os_getenv(n) == env[n]

InitReturns == [kind |-> "return", client |-> Some("og_client"), exc |-> NoExc]

\* What og.init does when called: returns a client or raises.
InitOutcomes ==
    {InitReturns,
     [kind |-> "raise", client |-> None, exc |-> Exc("Exception", "Invalid private key")],
     [kind |-> "raise", client |-> None, exc |-> Exc("RuntimeError", "connection refused")]}

ProviderName == "opengradient"

\* as ResolveCredentials, but the environment takes precedence
ResolveCredentials_EnvFirst(private_key, email, password) ==
    [private_key |-> PyOr(os_getenv("OPENGRADIENT_PRIVATE_KEY"), private_key),
     email |-> PyOr(os_getenv("OPENGRADIENT_EMAIL"), email),
     password |-> PyOr(os_getenv("OPENGRADIENT_PASSWORD"), password)]

\* The three lines `x = x or os.getenv(...)`.
ResolveCredentials(private_key, email, password) ==
    [private_key |-> PyOr(private_key, os_getenv("OPENGRADIENT_PRIVATE_KEY")),
     email |-> PyOr(email, os_getenv("OPENGRADIENT_EMAIL")),
     password |-> PyOr(password, os_getenv("OPENGRADIENT_PASSWORD"))]

MissingKeyError == Exc("ValueError", "OPENGRADIENT_PRIVATE_KEY is not configured.")

\* as InitFailedError, but without the added context
InitFailedError_NoContext(e) == Exc("ValueError", e.str)

InitFailedError(e) ==
    Exc("ValueError", "Failed to initialize OpenGradient client: " \o e.str)

\* OpenGradientActionProvider.__init__(private_key, email, password), with
\* og.init ending as `o` if it is called.
OpenGradientActionProvider_init(private_key, email, password, o) ==
    LET cred == ResolveCredentials(private_key, email, password) IN
    /\ phase = "new"
    /\ ctorArgs' = [private_key |-> private_key, email |-> email, password |-> password]
    /\ name' = Some(ProviderName)
    /\ IF ~Truthy(cred.private_key)
       THEN /\ ctorError' = Some(MissingKeyError)
            /\ phase' = "raised"
            /\ UNCHANGED <<client, initCalls>>
       ELSE /\ initCalls' = Append(initCalls, [kwargs |-> cred, end |-> o])
            /\ IF o.kind = "raise"
               THEN /\ ctorError' = Some(InitFailedError(o.exc))
                    /\ phase' = "raised"
                    /\ UNCHANGED client
               ELSE /\ client' = o.client
                    /\ phase' = "constructed"
                    /\ UNCHANGED ctorError
    /\ UNCHANGED <<env, lastCall, readCalls, chatCalls, result, netResult, instance>>

\* Values a caller passes for a credential parameter: omitted (None), the
\* empty string, or a value.
ParamValues(n) == {None, Some(""), Some("param:" \o n)}

\* Values the environment holds for a variable: unset, empty, or a value.
EnvValues(n) == {None, Some(""), Some("env:" \o n)}

Construct ==
    \E pk \in ParamValues("key"), em \in ParamValues("email"),
       pw \in ParamValues("password"), o \in InitOutcomes :
        OpenGradientActionProvider_init(pk, em, pw, o)

\* opengradient_action_provider(): the factory passes no parameter.
opengradient_action_provider ==
    \E o \in InitOutcomes : OpenGradientActionProvider_init(None, None, None, o)

----------------------------------------------------------------------------
(* Rendering of values as Python renders them *)

DigitChar == <<"0", "1", "2", "3", "4", "5", "6", "7", "8", "9">>

RECURSIVE NatStr(_)
\* str(n) of an int n >= 0
NatStr(n) == IF n < 10 THEN DigitChar[n + 1] ELSE NatStr(n \div 10) \o DigitChar[(n % 10) + 1]

RECURSIVE DigitsStr(_)
DigitsStr(ds) == IF ds = <<>> THEN "" ELSE DigitChar[Head(ds) + 1] \o DigitsStr(Tail(ds))

Dec(neg, ip, fd) == [neg |-> neg, ip |-> ip, fd |-> fd]

\* str(v) of a float v that Python prints in positional notation
PyStrFloat(v) ==
    (IF v.neg THEN "-" ELSE "") \o NatStr(v.ip) \o "." \o DigitsStr(v.fd)

NumberFields == <<"Y", "destandardized_prediction">>

RECURSIVE PyStrNumbers(_, _, _)
\* the items of str(d) for a dict d of floats, keys in the order of NumberFields
PyStrNumbers(d, i, first) ==
    IF i > Len(NumberFields) THEN ""
    ELSE IF NumberFields[i] \notin DOMAIN d THEN PyStrNumbers(d, i + 1, first)
    ELSE (IF first THEN "" ELSE ", ") \o "'" \o NumberFields[i] \o "': "
         \o PyStrFloat(d[NumberFields[i]]) \o PyStrNumbers(d, i + 1, FALSE)

\* str(result) of the SDK's ModelOutput, as the read_workflow description shows it
PyStrModelOutput(numbers) ==
    "ModelOutput(numbers={" \o PyStrNumbers(numbers, 1, TRUE)
    \o "}, strings={}, jsons={}, is_simulation_result=False)"

\* str(KeyError(k)) is repr(k)
KeyError(k) == Exc("KeyError", "'" \o k \o "'")

NameError(n) == Exc("NameError", "name '" \o n \o "' is not defined")

AttributeError(mod, attr) ==
    Exc("AttributeError", "module '" \o mod \o "' has no attribute '" \o attr \o "'")

----------------------------------------------------------------------------
(* The module's names and the constants module *)

\* The names the provider module binds at its top level.  `import a.b.c`
\* binds only `a`.
ModuleGlobals ==
    {"Any", "Web3", "Network", "EvmWalletProvider", "create_action", "ActionProvider",
     "OpenGradientReadWorkflow", "os", "og", "coinbase_agentkit",
     "OpenGradientActionProvider", "opengradient_action_provider"}

ConstantsModule == "coinbase_agentkit.action_providers.opengradient.constants"

\* The workflow addresses, as schemas.py documents them.
ETH_USDT_ONE_HOUR_VOLATILITY_ADDRESS == "0xFC5d8EDba288f9330Af324555F1A729303382725"

SUI_USDT_SIX_HOUR_FORECAST_ADDRESS == "0x080881b65427Da162CA0995fB23710Db4E8d85Cb"

SUI_USDT_THIRTY_MIN_FORECAST_ADDRESS == "0x7259f3a882B40aF80F7ff51D6023f23DD16b4465"

\* The attributes of the constants module that the tests read.
ConstantsAttrs ==
    [ETH_USDT_ONE_HOUR_VOLATILITY_ADDRESS |-> ETH_USDT_ONE_HOUR_VOLATILITY_ADDRESS,
     SUI_USDT_SIX_HOUR_FORECAST_ADDRESS |-> SUI_USDT_SIX_HOUR_FORECAST_ADDRESS,
     SUI_USDT_THIRTY_MIN_FORECAST_ADDRESS |-> SUI_USDT_THIRTY_MIN_FORECAST_ADDRESS]

\* og.LLM members
DOBBY_UNHINGED_3_1_8B == "og.LLM.DOBBY_UNHINGED_3_1_8B"

QWEN_2_5_72B_INSTRUCT == "og.LLM.QWEN_2_5_72B_INSTRUCT"

----------------------------------------------------------------------------
(* The SDK as an invocation sees it *)

NoDict == <<>>

\* How the SDK call of an invocation ends if it is made: og.read_workflow_result
\* returns a ModelOutput with a numbers dict or raises; og.llm_chat returns
\* an object with a chat_output dict or raises.
SdkReturn(numbers, chat_output) ==
    [kind |-> "return", numbers |-> numbers, chat_output |-> chat_output, exc |-> NoExc]

SdkRaise(e) == [kind |-> "raise", numbers |-> NoDict, chat_output |-> NoDict, exc |-> e]

NoSdk == [kind |-> "none", numbers |-> NoDict, chat_output |-> NoDict, exc |-> NoExc]

\* An invocation's end and the SDK calls it made.
Ran(end, reads, chats) == [end |-> end, reads |-> reads, chats |-> chats]

\* as TryExcept, but returning str(e) alone
TryExcept_NoPrefix(ran, prefix) ==
    IF ran.end.kind = "raise" /\ IsException(ran.end.exc)
    THEN Ran(Return(ran.end.exc.str), ran.reads, ran.chats)
    ELSE ran

\* as TryExcept, but with `except KeyError`
TryExcept_KeyErrorOnly(ran, prefix) ==
    IF ran.end.kind = "raise" /\ ran.end.exc.type = "KeyError"
    THEN Ran(Return(prefix \o ran.end.exc.str), ran.reads, ran.chats)
    ELSE ran

\* try: <body> except Exception as e: return f"<prefix>{e!s}"
TryExcept(ran, prefix) ==
    IF ran.end.kind = "raise" /\ IsException(ran.end.exc)
    THEN Ran(Return(prefix \o ran.end.exc.str), ran.reads, ran.chats)
    ELSE ran

\* d.get(k, default)
DictGet(d, k, default) == IF k \in DOMAIN d THEN d[k] ELSE default

----------------------------------------------------------------------------
(* The actions *)

\* The schema each @create_action passes.
ActionSchema ==
    [read_workflow |-> "OpenGradientReadWorkflow",
     read_workflow_eth_usdt_one_hour_volatility_forecast |-> "OpenGradientReadWorkflow",
     read_workflow_sui_usdt_six_hour_return_forecast |-> "OpenGradientReadWorkflow",
     read_workflow_sui_usdt_30_minute_return_forecast |-> "OpenGradientReadWorkflow",
     prompt_dobby |-> "OpenGradientReadWorkflow",
     prompt_qwen |-> "OpenGradientReadWorkflow"]

\* as read_workflow_body, but reading again after a failed read
read_workflow_body_Retry(args, sdk) ==
    IF "contract_address" \notin DOMAIN args
    THEN Ran(Raise(KeyError("contract_address")), <<>>, <<>>)
    ELSE LET contract_address == args["contract_address"] IN
         IF sdk.kind = "raise"
         THEN Ran(Raise(sdk.exc), <<contract_address, contract_address>>, <<>>)
         ELSE Ran(Return(PyStrModelOutput(sdk.numbers)), <<contract_address>>, <<>>)

\* as read_workflow_body, but reading from the ETH/USDT forecast's address
read_workflow_body_EthAddress(args, sdk) ==
    IF "contract_address" \notin DOMAIN args
    THEN Ran(Raise(KeyError("contract_address")), <<>>, <<>>)
    ELSE LET contract_address == ETH_USDT_ONE_HOUR_VOLATILITY_ADDRESS IN
         IF sdk.kind = "raise"
         THEN Ran(Raise(sdk.exc), <<contract_address>>, <<>>)
         ELSE Ran(Return(PyStrModelOutput(sdk.numbers)), <<contract_address>>, <<>>)

read_workflow_body(args, sdk) ==
    IF "contract_address" \notin DOMAIN args
    THEN Ran(Raise(KeyError("contract_address")), <<>>, <<>>)
    ELSE LET contract_address == args["contract_address"] IN
         IF sdk.kind = "raise"
         THEN Ran(Raise(sdk.exc), <<contract_address>>, <<>>)
         ELSE Ran(Return(PyStrModelOutput(sdk.numbers)), <<contract_address>>, <<>>)

read_workflow(args, sdk) ==
    TryExcept(read_workflow_body(args, sdk), "Error reading workflow: ")

\* contract_address = constants.<attr>; result = og.read_workflow_result(...);
\* return str(result.numbers[<field>])
ForecastBody(attr, field, sdk) ==
    IF "constants" \notin ModuleGlobals
    THEN Ran(Raise(NameError("constants")), <<>>, <<>>)
    ELSE IF attr \notin DOMAIN ConstantsAttrs
    THEN Ran(Raise(AttributeError(ConstantsModule, attr)), <<>>, <<>>)
    ELSE LET contract_address == ConstantsAttrs[attr] IN
         IF sdk.kind = "raise"
         THEN Ran(Raise(sdk.exc), <<contract_address>>, <<>>)
         ELSE IF field \notin DOMAIN sdk.numbers
         THEN Ran(Raise(KeyError(field)), <<contract_address>>, <<>>)
         ELSE Ran(Return(PyStrFloat(sdk.numbers[field])), <<contract_address>>, <<>>)

read_workflow_eth_usdt_one_hour_volatility_forecast(args, sdk) ==
    TryExcept(ForecastBody("ETH_USDT_ONE_HOUR_VOLATILITY_ADDRESS", "Y", sdk),
              "Error reading one_hour_eth_usdt_volatility workflow: ")

read_workflow_sui_usdt_six_hour_return_forecast(args, sdk) ==
    TryExcept(ForecastBody("SUI_USDT_SIX_HOUR_FORECAST_ADDRESS",
                           "destandardized_prediction", sdk),
              "Error reading one_hour_eth_usdt_volatility workflow: ")

read_workflow_sui_usdt_30_minute_return_forecast(args, sdk) ==
    TryExcept(ForecastBody("SUI_USDT_THIRTY_MIN_FORECAST_ADDRES",
                           "destandardized_prediction", sdk),
              "Error reading one_hour_eth_usdt_volatility workflow: ")

\* message = [{"role": "user", "content": prompt}]
UserMessage(prompt) == <<[role |-> "user", content |-> prompt]>>

ChatCall(model_cid, messages, temperature, max_tokens) ==
    [model_cid |-> model_cid, messages |-> messages,
     temperature |-> temperature, max_tokens |-> max_tokens]

\* as ContentMissing, but with the dobby text pasted into both actions
ContentMissing_Pasted(model) ==
    "Error: 'content' was not found in the chat output for the dobby model"

ContentMissing(model) ==
    "Error: 'content' was not found in the chat output for the " \o model \o " model"

\* The body both prompt actions share, up to the model and its name.
PromptBody(model_cid, model, args, sdk) ==
    IF "prompt" \notin DOMAIN args THEN Ran(Raise(KeyError("prompt")), <<>>, <<>>)
    ELSE IF "temperature" \notin DOMAIN args
    THEN Ran(Raise(KeyError("temperature")), <<>>, <<>>)
    ELSE IF "max_tokens" \notin DOMAIN args
    THEN Ran(Raise(KeyError("max_tokens")), <<>>, <<>>)
    ELSE LET call == ChatCall(model_cid, UserMessage(args["prompt"]),
                              args["temperature"], args["max_tokens"]) IN
         IF sdk.kind = "raise"
         THEN Ran(Raise(sdk.exc), <<>>, <<call>>)
         ELSE Ran(Return(DictGet(sdk.chat_output, "content", ContentMissing(model))),
                  <<>>, <<call>>)

prompt_dobby(args, sdk) ==
    TryExcept(PromptBody(DOBBY_UNHINGED_3_1_8B, "dobby", args, sdk),
              "Error reading one_hour_eth_usdt_volatility workflow: ")

\* as prompt_qwen, but with prompt_dobby's model left in place
prompt_qwen_DobbyModel(args, sdk) ==
    TryExcept(PromptBody(DOBBY_UNHINGED_3_1_8B, "qwen", args, sdk),
              "Error reading one_hour_eth_usdt_volatility workflow: ")

prompt_qwen(args, sdk) ==
    TryExcept(PromptBody(QWEN_2_5_72B_INSTRUCT, "qwen", args, sdk),
              "Error reading one_hour_eth_usdt_volatility workflow: ")

\* as supports_network, but supporting every network
supports_network_Always(network) == TRUE

\* return network.protocol_family == "evm"
supports_network(network) == network.protocol_family = "evm"

----------------------------------------------------------------------------
(* The input schemas (schemas.py) *)

\* name: type = Field(...) or Field(default=d): `default` is None for a
\* required field.  A float default is in hundredths, as temperatures are.
SchemaField(n, type, default) == [name |-> n, type |-> type, default |-> default]

PromptFields ==
    <<SchemaField("prompt", "str", None),
      SchemaField("temperature", "float", Some(95)),
      SchemaField("max_tokens", "int", Some(2048))>>

\* as Schemas, but with `prompt` declared with a default
Schemas_PromptOptional ==
    [OpenGradientReadWorkflow |-> <<SchemaField("contract_address", "str", None)>>,
     OpenGradientEthUsdtOneHourVolatilityForecast |-> <<>>,
     OpenGradientSuiUsdtSixHourReturnForecast |-> <<>>,
     OpenGradientSuiUsdt30MinReturnForecast |-> <<>>,
     OpenGradientPromptDobby |->
        <<SchemaField("prompt", "str", Some(""))>> \o Tail(PromptFields),
     OpenGradientPromptQwen |->
        <<SchemaField("prompt", "str", Some(""))>> \o Tail(PromptFields),
     OpenGradientRunModel |-> <<SchemaField("model_cid", "str", None)>>]

\* The BaseModel classes and their fields, in declaration order.
Schemas ==
    [OpenGradientReadWorkflow |-> <<SchemaField("contract_address", "str", None)>>,
     OpenGradientEthUsdtOneHourVolatilityForecast |-> <<>>,
     OpenGradientSuiUsdtSixHourReturnForecast |-> <<>>,
     OpenGradientSuiUsdt30MinReturnForecast |-> <<>>,
     OpenGradientPromptDobby |-> PromptFields,
     OpenGradientPromptQwen |-> PromptFields,
     OpenGradientRunModel |-> <<SchemaField("model_cid", "str", None)>>]

SchemaNames == DOMAIN Schemas

FieldNames(schema) == {Schemas[schema][i].name : i \in 1..Len(Schemas[schema])}

RequiredFields(schema) ==
    {Schemas[schema][i].name :
        i \in {j \in 1..Len(Schemas[schema]) : Schemas[schema][j].default = None}}

FieldDefault(schema, n) ==
    (CHOOSE f \in {Schemas[schema][i] : i \in 1..Len(Schemas[schema])} : f.name = n).default[1]

ValidationError(schema) == Exc("ValidationError", "1 validation error for " \o schema)

\* schema(**args) for well-typed args: a missing required field raises
\* ValidationError; otherwise the instance holds every declared field, the
\* given value or else the default, and keys the schema does not declare are
\* ignored.
Validate(schema, args) ==
    IF ~(RequiredFields(schema) \subseteq DOMAIN args)
    THEN [ok |-> FALSE, fields |-> <<>>, exc |-> ValidationError(schema)]
    ELSE [ok |-> TRUE,
          fields |-> [n \in FieldNames(schema) |->
                        IF n \in DOMAIN args THEN args[n] ELSE FieldDefault(schema, n)],
          exc |-> NoExc]

----------------------------------------------------------------------------
(* Inputs *)

Opt(S) == {None} \cup {Some(x) : x \in S}

Entry(k, o) == IF o = None THEN <<>> ELSE k :> o[1]

Addresses == {"0x1234"}

Prompts == {"Test prompt", "gm"}

\* temperature in hundredths: 50 is 0.5
Temperatures == {0, 50}

MaxTokens == {10, 100}

\* Every argument mapping over the four keys the actions read.
ArgMaps ==
    {Entry("contract_address", c) @@ Entry("prompt", p) @@ Entry("temperature", t)
        @@ Entry("max_tokens", m) :
        c \in Opt(Addresses), p \in Opt(Prompts), t \in Opt(Temperatures),
        m \in Opt(MaxTokens)}

NumbersDicts ==
    {NoDict,
     "Y" :> Dec(FALSE, 0, <<0, 6, 7, 8>>),
     "destandardized_prediction" :> Dec(FALSE, 0, <<0, 1, 2, 3>>),
     ("Y" :> Dec(TRUE, 0, <<1, 0, 8, 3, 8, 8, 2, 4, 5, 1>>))
        @@ ("destandardized_prediction" :> Dec(FALSE, 0, <<0, 5, 3, 4>>))}

SdkErrors == {Exc("Exception", "Failed to read workflow")}

ReadOutcomes ==
    {SdkReturn(n, NoDict) : n \in NumbersDicts} \cup {SdkRaise(e) : e \in SdkErrors}

ChatOutputs == {NoDict, "content" :> "Sample model response", "content" :> ""}

ChatOutcomes ==
    {SdkReturn(NoDict, c) : c \in ChatOutputs} \cup {SdkRaise(e) : e \in SdkErrors}

Networks == {[protocol_family |-> f] : f \in {"evm", "svm", "bitcoin"}}

----------------------------------------------------------------------------
(* Invocations of a constructed provider *)

NoCall == [action |-> "", args |-> <<>>, sdk |-> NoSdk]

NotInvoked == Ran([kind |-> "none", value |-> "", exc |-> NoExc], <<>>, <<>>)

\* as Invoke, but the invocation clears self.client
Invoke_ClearsClient(a, args, sdk, ran) ==
    /\ phase = "constructed"
    /\ lastCall' = [action |-> a, args |-> args, sdk |-> sdk]
    /\ readCalls' = ran.reads
    /\ chatCalls' = ran.chats
    /\ result' = ran.end
    /\ netResult' = None
    /\ client' = None
    /\ UNCHANGED <<env, phase, ctorArgs, name, initCalls, ctorError, instance>>

\* The caller invokes action `a` with `args`, as the tests do, by calling the
\* decorated method: @create_action attaches the name, the description and
\* the schema and hands `args` to the method unchanged.  `ran` is what the
\* method did.
Invoke(a, args, sdk, ran) ==
    /\ phase = "constructed"
    /\ lastCall' = [action |-> a, args |-> args, sdk |-> sdk]
    /\ readCalls' = ran.reads
    /\ chatCalls' = ran.chats
    /\ result' = ran.end
    /\ netResult' = None
    /\ UNCHANGED <<ctorVars, instance>>

InvokeReadWorkflow ==
    \E args \in ArgMaps, sdk \in ReadOutcomes :
        Invoke("read_workflow", args, sdk, read_workflow(args, sdk))

InvokeEthUsdtOneHourVolatility ==
    \E args \in ArgMaps, sdk \in ReadOutcomes :
        Invoke("read_workflow_eth_usdt_one_hour_volatility_forecast", args, sdk,
               read_workflow_eth_usdt_one_hour_volatility_forecast(args, sdk))

InvokeSuiUsdtSixHourReturn ==
    \E args \in ArgMaps, sdk \in ReadOutcomes :
        Invoke("read_workflow_sui_usdt_six_hour_return_forecast", args, sdk,
               read_workflow_sui_usdt_six_hour_return_forecast(args, sdk))

InvokeSuiUsdt30MinuteReturn ==
    \E args \in ArgMaps, sdk \in ReadOutcomes :
        Invoke("read_workflow_sui_usdt_30_minute_return_forecast", args, sdk,
               read_workflow_sui_usdt_30_minute_return_forecast(args, sdk))

InvokePromptDobby ==
    \E args \in ArgMaps, sdk \in ChatOutcomes :
        Invoke("prompt_dobby", args, sdk, prompt_dobby(args, sdk))

InvokePromptQwen ==
    \E args \in ArgMaps, sdk \in ChatOutcomes :
        Invoke("prompt_qwen", args, sdk, prompt_qwen(args, sdk))

QuerySupportsNetwork ==
    \E network \in Networks :
        /\ phase = "constructed"
        /\ lastCall' = [action |-> "supports_network", args |-> network, sdk |-> NoSdk]
        /\ netResult' = Some(supports_network(network))
        /\ readCalls' = <<>>
        /\ chatCalls' = <<>>
        /\ result' = NotInvoked.end
        /\ UNCHANGED <<ctorVars, instance>>

----------------------------------------------------------------------------
(* Specifications *)

Environments ==
    {e \in [EnvNames -> UNION {EnvValues(n) : n \in EnvNames}] :
        \A n \in EnvNames : e[n] \in EnvValues(n)}

Fresh ==
    /\ lastCall = NoCall
    /\ readCalls = <<>>
    /\ chatCalls = <<>>
    /\ result = NotInvoked.end
    /\ netResult = None
    /\ instance = None

\* Before any construction: any environment, no provider.
CtorInit ==
    /\ env \in Environments
    /\ phase = "new"
    /\ ctorArgs = [private_key |-> None, email |-> None, password |-> None]
    /\ name = None
    /\ client = None
    /\ initCalls = <<>>
    /\ ctorError = None
    /\ Fresh

CtorNext == Construct \/ opengradient_action_provider

CtorSpec == CtorInit /\ [][CtorNext]_vars

\* The environments of the tests' mock_env: the private key is set, and the
\* optional credentials are both set or both unset.
FixtureEnvironments ==
    {e \in Environments :
        /\ e["OPENGRADIENT_PRIVATE_KEY"] = Some("env:OPENGRADIENT_PRIVATE_KEY")
        /\ e["OPENGRADIENT_EMAIL"] # Some("")
        /\ (e["OPENGRADIENT_EMAIL"] = None) <=> (e["OPENGRADIENT_PASSWORD"] = None)
        /\ e["OPENGRADIENT_PASSWORD"] # Some("")}

\* After opengradient_action_provider() has returned a provider.
Init ==
    /\ env \in FixtureEnvironments
    /\ phase = "constructed"
    /\ ctorArgs = [private_key |-> None, email |-> None, password |-> None]
    /\ name = Some(ProviderName)
    /\ client = InitReturns.client
    /\ initCalls = <<[kwargs |-> ResolveCredentials(None, None, None), end |-> InitReturns]>>
    /\ ctorError = None
    /\ Fresh

Next ==
    \/ InvokeReadWorkflow
    \/ InvokeEthUsdtOneHourVolatility
    \/ InvokeSuiUsdtSixHourReturn
    \/ InvokeSuiUsdt30MinuteReturn
    \/ InvokePromptDobby
    \/ InvokePromptQwen
    \/ QuerySupportsNetwork

Spec == Init /\ [][Next]_vars

\* schema(**args), as the schema tests build instances: no provider is needed.
BuildSchema ==
    \E schema \in SchemaNames, args \in ArgMaps :
        LET v == Validate(schema, args) IN
        /\ lastCall' = [action |-> schema, args |-> args, sdk |-> NoSdk]
        /\ result' = IF v.ok THEN Return("") ELSE Raise(v.exc)
        /\ instance' = IF v.ok THEN Some(v.fields) ELSE None
        /\ UNCHANGED <<ctorVars, readCalls, chatCalls, netResult>>

SchemaInit ==
    /\ env \in FixtureEnvironments
    /\ phase = "new"
    /\ ctorArgs = [private_key |-> None, email |-> None, password |-> None]
    /\ name = None
    /\ client = None
    /\ initCalls = <<>>
    /\ ctorError = None
    /\ Fresh

SchemaNext == BuildSchema

SchemaSpec == SchemaInit /\ [][SchemaNext]_vars

----------------------------------------------------------------------------
(* What the claims need to name *)

ForecastActions ==
    {"read_workflow_eth_usdt_one_hour_volatility_forecast",
     "read_workflow_sui_usdt_six_hour_return_forecast",
     "read_workflow_sui_usdt_30_minute_return_forecast"}

PromptActions == {"prompt_dobby", "prompt_qwen"}

ActionNames == {"read_workflow"} \cup ForecastActions \cup PromptActions

Invoked(S) == lastCall.action \in S

Empty == {None, Some("")}

CredentialEnvName ==
    [private_key |-> "OPENGRADIENT_PRIVATE_KEY", email |-> "OPENGRADIENT_EMAIL",
     password |-> "OPENGRADIENT_PASSWORD"]

Credentials == DOMAIN CredentialEnvName

Constructing == phase # "new"

\* The numeric field each forecast action is to read.
ExpectedField ==
    [read_workflow_eth_usdt_one_hour_volatility_forecast |-> "Y",
     read_workflow_sui_usdt_six_hour_return_forecast |-> "destandardized_prediction",
     read_workflow_sui_usdt_30_minute_return_forecast |-> "destandardized_prediction"]

\* The address each forecast action is to read from.
ExpectedAddress ==
    [read_workflow_eth_usdt_one_hour_volatility_forecast |->
        ETH_USDT_ONE_HOUR_VOLATILITY_ADDRESS,
     read_workflow_sui_usdt_six_hour_return_forecast |-> SUI_USDT_SIX_HOUR_FORECAST_ADDRESS,
     read_workflow_sui_usdt_30_minute_return_forecast |->
        SUI_USDT_THIRTY_MIN_FORECAST_ADDRESS]

\* The workflow name each forecast action is to report errors under.
ExpectedWorkflowName ==
    [read_workflow_eth_usdt_one_hour_volatility_forecast |-> "one_hour_eth_usdt_volatility",
     read_workflow_sui_usdt_six_hour_return_forecast |-> "sui_usdt_six_hour_return_forecast",
     read_workflow_sui_usdt_30_minute_return_forecast |->
        "sui_usdt_30_minute_return_forecast"]

ExpectedModel ==
    [prompt_dobby |-> DOBBY_UNHINGED_3_1_8B, prompt_qwen |-> QWEN_2_5_72B_INSTRUCT]

ExpectedModelName == [prompt_dobby |-> "dobby", prompt_qwen |-> "qwen"]

FracDigit(v, i) == IF i <= Len(v.fd) THEN v.fd[i] ELSE 0

\* 100*v with ten digits after the decimal point and a "%", for a v of at
\* most twelve digits after the point (no rounding is needed then)
PercentStr(v) ==
    (IF v.neg THEN "-" ELSE "")
    \o NatStr(v.ip * 100 + FracDigit(v, 1) * 10 + FracDigit(v, 2)) \o "."
    \o DigitsStr([i \in 1..10 |-> FracDigit(v, i + 2)]) \o "%"

FullPromptArgs == {"prompt", "temperature", "max_tokens"} \subseteq DOMAIN lastCall.args

----------------------------------------------------------------------------
(* C1..C10 *)

\* C1: every invocation of an action, whatever the argument mapping and
\* whatever the SDK does, ends by returning a string; no exception reaches
\* the caller.
C1_InvokeReturnsString ==
    Invoked(ActionNames) => result.kind = "return" /\ result.value \in STRING

\* C1 witness: prompt_qwen called the SDK, the SDK raised, a string came back.
C1_Witness ==
    /\ Invoked({"prompt_qwen"})
    /\ lastCall.sdk.kind = "raise"
    /\ Len(chatCalls) = 1
    /\ result.kind = "return"

\* C2: constructing with no non-empty private key, neither as parameter nor
\* in the environment, raises an error naming OPENGRADIENT_PRIVATE_KEY,
\* og.init is never called and no provider is returned.
C2_NoKeyFailsBeforeInit ==
    (Constructing /\ ctorArgs.private_key \in Empty
        /\ env["OPENGRADIENT_PRIVATE_KEY"] \in Empty)
    => /\ phase = "raised"
       /\ ctorError # None
       /\ Contains(ctorError[1].str, "OPENGRADIENT_PRIVATE_KEY")
       /\ initCalls = <<>>
       /\ client = None

\* C2 witness: an empty parameter and an empty environment value.
C2_Witness ==
    /\ phase = "raised"
    /\ ctorArgs.private_key = Some("")
    /\ env["OPENGRADIENT_PRIVATE_KEY"] = Some("")
    /\ initCalls = <<>>

\* C3: with a private key available, og.init is called once; if it raises,
\* construction raises "Failed to initialize OpenGradient client: <init
\* error>" and returns no provider; if it returns, construction succeeds and
\* the returned client is self.client.
C3_InitErrorWrappedClientStored ==
    (Constructing /\ ~(ctorArgs.private_key \in Empty
                       /\ env["OPENGRADIENT_PRIVATE_KEY"] \in Empty))
    => /\ Len(initCalls) = 1
       /\ initCalls[1].end.kind = "raise" =>
            /\ phase = "raised"
            /\ client = None
            /\ ctorError = Some(Exc("ValueError",
                   "Failed to initialize OpenGradient client: "
                       \o initCalls[1].end.exc.str))
       /\ initCalls[1].end.kind = "return" =>
            /\ phase = "constructed"
            /\ client = initCalls[1].end.client
            /\ client # None
            /\ ctorError = None

\* C3 witness: og.init raised and construction failed with the wrapped error.
C3_Witness ==
    /\ phase = "raised"
    /\ Len(initCalls) = 1
    /\ initCalls[1].end.exc.str = "Invalid private key"
    /\ ctorError # None

\* C4 as claimed: og.init receives the parameter whenever one is supplied,
\* the empty string included, and the environment value only when the
\* parameter is not supplied.
C4_AsClaimed ==
    \A i \in 1..Len(initCalls) : \A c \in Credentials :
        initCalls[i].kwargs[c] =
            IF ctorArgs[c] # None THEN ctorArgs[c] ELSE env[CredentialEnvName[c]]

\* C4 as amended: og.init receives the parameter whenever a non-empty one is
\* supplied, and otherwise (parameter omitted or empty) what os.getenv
\* returns for the credential's variable.
C4_NonEmptyParameterFirst ==
    \A i \in 1..Len(initCalls) : \A c \in Credentials :
        /\ ctorArgs[c] \notin Empty => initCalls[i].kwargs[c] = ctorArgs[c]
        /\ ctorArgs[c] \in Empty => initCalls[i].kwargs[c] = env[CredentialEnvName[c]]

\* C4 witness: an empty email parameter, and og.init got the environment's
\* email; a password parameter, and og.init got it although the
\* environment has one too.
C4_Witness ==
    /\ Len(initCalls) = 1
    /\ ctorArgs.email = Some("")
    /\ initCalls[1].kwargs.email = Some("env:OPENGRADIENT_EMAIL")
    /\ env["OPENGRADIENT_PASSWORD"] = Some("env:OPENGRADIENT_PASSWORD")
    /\ initCalls[1].kwargs.password = Some("param:password")

\* C5: a forecast action whose SDK read returns the action's field with
\* value v returns 100*v with ten digits after the point, sign kept, and "%".
C5_ForecastReturnsPercentage ==
    (/\ Invoked(ForecastActions)
     /\ lastCall.sdk.kind = "return"
     /\ ExpectedField[lastCall.action] \in DOMAIN lastCall.sdk.numbers)
    => result = Return(PercentStr(lastCall.sdk.numbers[ExpectedField[lastCall.action]]))

\* C6: a forecast action calls og.read_workflow_result exactly once, with
\* its own address constant, whatever the arguments.
C6_ForecastReadsOwnAddressOnce ==
    Invoked(ForecastActions) => readCalls = <<ExpectedAddress[lastCall.action]>>

\* C7: when the SDK read raises, a forecast action returns a string
\* containing "Error reading <its own workflow name> workflow:".
C7_ForecastErrorNamesOwnWorkflow ==
    (Invoked(ForecastActions) /\ lastCall.sdk.kind = "raise")
    => /\ result.kind = "return"
       /\ Contains(result.value,
              "Error reading " \o ExpectedWorkflowName[lastCall.action] \o " workflow:")

\* C8: a prompt action given prompt, temperature and max_tokens calls
\* og.llm_chat exactly once, with its own model, the prompt as the single
\* user message, and the given temperature and max_tokens; if the chat output
\* has "content", the action returns exactly that.
C8_PromptCallsChatOnce ==
    (Invoked(PromptActions) /\ FullPromptArgs)
    => /\ chatCalls = <<[model_cid |-> ExpectedModel[lastCall.action],
                         messages |-> <<[role |-> "user",
                                         content |-> lastCall.args["prompt"]]>>,
                         temperature |-> lastCall.args["temperature"],
                         max_tokens |-> lastCall.args["max_tokens"]]>>
       /\ readCalls = <<>>
       /\ (lastCall.sdk.kind = "return" /\ "content" \in DOMAIN lastCall.sdk.chat_output)
            => result = Return(lastCall.sdk.chat_output["content"])

\* C8 witness: prompt_qwen with full arguments got content back.
C8_Witness ==
    /\ Invoked({"prompt_qwen"})
    /\ FullPromptArgs
    /\ lastCall.args["temperature"] = 50
    /\ Len(chatCalls) = 1
    /\ result = Return("Sample model response")

\* C9: when og.llm_chat returns and the chat output has no "content", a
\* prompt action returns exactly "Error: 'content' was not found in the chat
\* output for the <dobby|qwen> model", not the message of the except clause.
C9_MissingContentMessage ==
    (/\ Invoked(PromptActions)
     /\ Len(chatCalls) = 1
     /\ lastCall.sdk.kind = "return"
     /\ "content" \notin DOMAIN lastCall.sdk.chat_output)
    => /\ result.kind = "return"
       /\ result.value = "Error: 'content' was not found in the chat output for the "
                            \o ExpectedModelName[lastCall.action] \o " model"
       /\ ~StartsWith(result.value, "Error reading")

\* C9 witness: prompt_qwen got a chat output without content.
C9_Witness ==
    /\ Invoked({"prompt_qwen"})
    /\ Len(chatCalls) = 1
    /\ lastCall.sdk.kind = "return"
    /\ lastCall.sdk.chat_output = NoDict
    /\ result.kind = "return"

\* C10: a prompt action invoked without `prompt` returns a string containing
\* "Error prompting <dobby|qwen> model" and does not call og.llm_chat.
C10_MissingPromptMessage ==
    (Invoked(PromptActions) /\ "prompt" \notin DOMAIN lastCall.args)
    => /\ result.kind = "return"
       /\ Contains(result.value,
              "Error prompting " \o ExpectedModelName[lastCall.action] \o " model")
       /\ chatCalls = <<>>

----------------------------------------------------------------------------
(* C11..C17 *)

\* C11: a prompt action given `prompt` but not temperature and/or max_tokens
\* calls og.llm_chat with temperature 0.95 for an omitted temperature and
\* max_tokens 2048 for an omitted max_tokens, and the omission does not turn
\* the invocation into an error string.
C11_DefaultsApplied ==
    (Invoked(PromptActions) /\ "prompt" \in DOMAIN lastCall.args /\ ~FullPromptArgs)
    => /\ Len(chatCalls) = 1
       /\ chatCalls[1].temperature =
            (IF "temperature" \in DOMAIN lastCall.args
             THEN lastCall.args["temperature"] ELSE 95)
       /\ chatCalls[1].max_tokens =
            (IF "max_tokens" \in DOMAIN lastCall.args
             THEN lastCall.args["max_tokens"] ELSE 2048)
       /\ (lastCall.sdk.kind = "return" /\ "content" \in DOMAIN lastCall.sdk.chat_output)
            => result = Return(lastCall.sdk.chat_output["content"])

\* C12: supports_network(network) returns true exactly when
\* network.protocol_family is "evm"; the answer is a function of the network
\* alone, and the query calls no SDK operation and changes nothing of the
\* provider or the environment.
C12_SupportsNetworkEvmOnly ==
    [][lastCall'.action = "supports_network" =>
        /\ netResult' = Some(lastCall'.args.protocol_family = "evm")
        /\ readCalls' = <<>>
        /\ chatCalls' = <<>>
        /\ UNCHANGED ctorVars]_vars

\* C12 witness: a query about a non-EVM network answered false.
C12_Witness ==
    /\ Invoked({"supports_network"})
    /\ lastCall.args.protocol_family = "svm"
    /\ netResult = Some(FALSE)

\* An invocation that fails: a required argument is missing, the SDK raises
\* (an invalid address included), or the SDK's result lacks the field the
\* action reads.
FailedCall ==
    \/ /\ Invoked({"read_workflow"})
       /\ \/ "contract_address" \notin DOMAIN lastCall.args
          \/ lastCall.sdk.kind = "raise"
    \/ /\ Invoked(ForecastActions)
       /\ \/ lastCall.sdk.kind = "raise"
          \/ ExpectedField[lastCall.action] \notin DOMAIN lastCall.sdk.numbers
    \/ /\ Invoked(PromptActions)
       /\ \/ "prompt" \notin DOMAIN lastCall.args
          \/ lastCall.sdk.kind = "raise"
          \/ "content" \notin DOMAIN lastCall.sdk.chat_output

\* C13: every failed invocation returns a string that begins with "Error".
C13_FailureStartsWithError ==
    FailedCall => result.kind = "return" /\ StartsWith(result.value, "Error")

\* C13 witness: read_workflow called the SDK, the SDK raised.
C13_Witness ==
    /\ Invoked({"read_workflow"})
    /\ Len(readCalls) = 1
    /\ result = Return("Error reading workflow: Failed to read workflow")

\* The required fields of each schema, as the claim has them.
ExpectedRequired ==
    [OpenGradientReadWorkflow |-> {"contract_address"},
     OpenGradientEthUsdtOneHourVolatilityForecast |-> {},
     OpenGradientSuiUsdtSixHourReturnForecast |-> {},
     OpenGradientSuiUsdt30MinReturnForecast |-> {},
     OpenGradientPromptDobby |-> {"prompt"},
     OpenGradientPromptQwen |-> {"prompt"},
     OpenGradientRunModel |-> {"model_cid"}]

ForecastSchemas ==
    {"OpenGradientEthUsdtOneHourVolatilityForecast",
     "OpenGradientSuiUsdtSixHourReturnForecast",
     "OpenGradientSuiUsdt30MinReturnForecast"}

PromptSchemas == {"OpenGradientPromptDobby", "OpenGradientPromptQwen"}

C15_AtMostOneSdkCall ==
    Invoked(ActionNames)
    => /\ Len(readCalls) + Len(chatCalls) <= 1
       /\ Invoked({"read_workflow"} \cup ForecastActions) => chatCalls = <<>>
       /\ Invoked(PromptActions) => readCalls = <<>>
       /\ Len(initCalls) = 1

\* C15 witness: read_workflow's one read raised and was not repeated.
C15_Witness ==
    /\ Invoked({"read_workflow"})
    /\ lastCall.sdk.kind = "raise"
    /\ Len(readCalls) = 1

\* C16: read_workflow given contract_address a reads exactly once, from a,
\* and returns str(result) of the whole result on success; without
\* contract_address, or when the SDK raises, it returns a string starting
\* "Error reading workflow:", and without contract_address it calls no SDK
\* operation.
C16_ReadWorkflowGeneric ==
    Invoked({"read_workflow"})
    => /\ result.kind = "return"
       /\ chatCalls = <<>>
       /\ IF "contract_address" \in DOMAIN lastCall.args
          THEN /\ readCalls = <<lastCall.args["contract_address"]>>
               /\ lastCall.sdk.kind = "return" =>
                    result.value = PyStrModelOutput(lastCall.sdk.numbers)
               /\ lastCall.sdk.kind = "raise" =>
                    StartsWith(result.value, "Error reading workflow:")
          ELSE /\ readCalls = <<>>
               /\ StartsWith(result.value, "Error reading workflow:")

\* C16 witness: a successful read of a result with both number fields.
C16_Witness ==
    /\ Invoked({"read_workflow"})
    /\ readCalls = <<"0x1234">>
    /\ StartsWith(result.value,
           "ModelOutput(numbers={'Y': -0.1083882451, 'destandardized_prediction': 0.0534}")

\* C17: no invocation and no supports_network query changes the provider
\* (its name, its client), the og.init calls or the environment; and
\* invoking again the same action with the same arguments and the same SDK
\* response, after a history one invocation longer, gives the same result.
C17_InvocationsKeepProviderState ==
    [][/\ name' = name
       /\ client' = client
       /\ phase' = phase
       /\ initCalls' = initCalls
       /\ env' = env
       /\ lastCall' = lastCall =>
            /\ result' = result
            /\ netResult' = netResult
            /\ readCalls' = readCalls
            /\ chatCalls' = chatCalls]_vars

\* C17 witness: after an invocation the provider still has its name and client.
C17_Witness ==
    /\ Invoked({"prompt_dobby"})
    /\ result = Return("Sample model response")
    /\ name = Some("opengradient")
    /\ client = Some("og_client")

====
